---------------------------- MODULE Spec2Model ----------------------------
(***************************************************************************)
(* Clone manager of the seafile daemon (daemon/clone-mgr.c): the clone     *)
(* task state machine, its durable table CloneTasks, startup recovery,     *)
(* worktree placement, and the completion events of the index job, the     *)
(* transfer, the checkout and the merge job.                               *)
(*                                                                         *)
(* Strings (paths, repository names) are sequences of one-character        *)
(* strings, so that basename, prefix comparison, trailing-separator        *)
(* stripping and "%s-%d" formatting are computed as the code computes      *)
(* them.                                                                   *)
(***************************************************************************)
EXTENDS Integers, Sequences, FiniteSets, TLC

(***************************************************************************)
(* Bounds of the model.                                                    *)
(***************************************************************************)
\* try_worktree's counter runs to 2^32-2 in the code; the model stops here.
MaxCnt == 2
\* number of back-to-back gen_default_worktree calls recorded
MaxGen == 2

(***************************************************************************)
(* Enumerations: clone-mgr.c state_str / error_str.                        *)
(***************************************************************************)
state_str ==
    <<"init", "connect", "index", "fetch", "checkout", "merge",
      "done", "error", "canceling", "canceled">>

error_str ==
    <<"ok", "connect", "index", "fetch", "password", "checkout", "merge",
      "internal">>

CLONE_STATE_INIT == state_str[1]
CLONE_STATE_CONNECT == state_str[2]
CLONE_STATE_INDEX == state_str[3]
CLONE_STATE_FETCH == state_str[4]
CLONE_STATE_CHECKOUT == state_str[5]
CLONE_STATE_MERGE == state_str[6]
CLONE_STATE_DONE == state_str[7]
CLONE_STATE_ERROR == state_str[8]
CLONE_STATE_CANCEL_PENDING == state_str[9]
CLONE_STATE_CANCELED == state_str[10]

CLONE_OK == error_str[1]
CLONE_ERROR_INDEX == error_str[3]
CLONE_ERROR_FETCH == error_str[4]
CLONE_ERROR_PASSWD == error_str[5]
CLONE_ERROR_CHECKOUT == error_str[6]
CLONE_ERROR_MERGE == error_str[7]
CLONE_ERROR_INTERNAL == error_str[8]

\* the three states in which transition_state deletes the row
Terminal == {CLONE_STATE_DONE, CLONE_STATE_ERROR, CLONE_STATE_CANCELED}

\* the error messages add_task sets with g_set_error
ERR_REPO_EXISTS == "Repo already exists"
ERR_IN_PROGRESS == "Task is already in progress"
ERR_BAD_NAME == "Invalid local directory name"
ERR_BAD_DIR == "Invalid local directory"
ERR_IN_SYNC == "Already in sync"

(***************************************************************************)
(* Strings.                                                                *)
(***************************************************************************)
IsSep(c) == c = "/" \/ c = "\\"

Digit == <<"0", "1", "2", "3", "4", "5", "6", "7", "8", "9">>

\* "%d" of g_strdup_printf
RECURSIVE itoa(_)
itoa(n) ==
    IF n < 10 THEN <<Digit[n + 1]>>
    ELSE itoa(n \div 10) \o <<Digit[(n % 10) + 1]>>

\* g_strdup_printf("%s-%d", worktree, cnt)
SuffixName(worktree, cnt) == worktree \o <<"-">> \o itoa(cnt)

\* the loop of make_worktree that cuts trailing '/' and '\\'
RECURSIVE StripTail(_)
StripTail(s) ==
    IF Len(s) > 0 /\ IsSep(s[Len(s)]) THEN StripTail(SubSeq(s, 1, Len(s) - 1))
    ELSE s

\* index of the last separator of s, 0 when there is none
RECURSIVE LastSep(_)
LastSep(s) ==
    IF Len(s) = 0 THEN 0
    ELSE IF IsSep(s[Len(s)]) THEN Len(s)
    ELSE LastSep(SubSeq(s, 1, Len(s) - 1))

\* g_path_get_basename: trailing separators are skipped, then the part after
\* the last separator is returned ("." for "", "/" for a string of separators)
g_path_get_basename(file_name) ==
    LET t == StripTail(file_name) IN
    IF Len(file_name) = 0 THEN <<".">>
    ELSE IF Len(t) = 0 THEN <<"/">>
    ELSE SubSeq(t, LastSep(t) + 1, Len(t))

\* the directory part of a stripped path (what lstat has to walk through)
DirName(path) ==
    LET k == LastSep(path) IN
    IF k = 0 THEN <<".">> ELSE StripTail(SubSeq(path, 1, k))

\* g_build_filename (parent, name): one separator between the elements
g_build_filename(parent, name) == StripTail(parent) \o <<"/">> \o name

\* strncmp (base, repo_name, name_len) == 0, for base_len >= name_len
IsPrefix(p, s) == Len(p) <= Len(s) /\ SubSeq(s, 1, Len(p)) = p

\* mutant of worktree_repo_name_matches: the basename must be repo_name
worktree_repo_name_matches_exact(worktree, repo_name) ==
    g_path_get_basename(worktree) = repo_name

\* worktree_repo_name_matches: base_len < name_len fails, otherwise the first
\* name_len bytes of the basename must equal repo_name
worktree_repo_name_matches(worktree, repo_name) ==
    LET base == g_path_get_basename(worktree)
        base_len == Len(base)
        name_len == Len(repo_name)
    IN IF base_len < name_len THEN FALSE
       ELSE SubSeq(base, 1, name_len) = repo_name


(***************************************************************************)
(* The universe of the model.                                              *)
(***************************************************************************)
RepoIds == {"r1", "r2"}

\* NULL pointer of a char * (every real path is a non-empty string)
NULL == <<>>

\* repository names offered to add_task and gen_default_worktree
RepoNames == {<<"a">>, <<"a", "b">>}

\* worktree parents: "p" is a directory, "q" (when present) a regular file
Parents == {<<"p">>, <<"q">>}

Bases ==
    RepoNames \cup {SuffixName(n, c) : n \in RepoNames, c \in 1..MaxCnt}

\* every stripped path the model's file system knows about
FsPaths == Parents \cup {g_build_filename(par, b) : par \in Parents, b \in Bases}

\* kinds of entry: nothing, a regular file, a symbolic link to nothing, a
\* directory without or with entries
FsKinds == {"absent", "file", "dangling", "empty", "nonempty"}

\* passphrase of a task: none given, the right one, a wrong one
Passwds == {"none", "good", "bad"}

\* a repository is unencrypted, or encrypted with enc_version 0 or 1
EncKinds == {"plain", "enc0", "enc1"}

VARIABLES
    up,        \* the daemon process is running (init has returned)
    tasks,     \* mgr->tasks: repo_id -> CloneTask, defined on the ids it holds
    db,        \* table CloneTasks: the set of its rows
    repos,     \* repo manager: repo_id -> repo, defined on the repos it knows
    enc,       \* for each repository id, how the repository is encrypted
    fs,        \* file system: path -> kind of entry
    peer,      \* the relay as ccnet sees it: "none", "down" or "up"
    idx,       \* per repo: index job scheduled on the job manager
    tx,        \* per repo: download task of the transfer manager
    co,        \* per repo: checkout task of the repo manager
    mj,        \* per repo: merge job scheduled on the job manager
    fault,     \* "none", or the assertion / memory error the process hit
    ret,       \* what the last call of the RPC surface returned
    hist,      \* per repo: history of the current task (for the properties)
    genHist    \* results of the gen_default_worktree calls made back to back

vars ==
    <<up, tasks, db, repos, enc, fs, peer, idx, tx, co, mj, fault, ret, hist,
      genHist>>

(***************************************************************************)
(* File system primitives used by the worktree placer.                     *)
(***************************************************************************)
\* g_lstat: "DIR", "NOTDIR" on success; "ENOENT" or "ERR" (another errno,
\* here ENOTDIR: a component of the path is a regular file) on failure
g_lstat(f, path) ==
    LET d == DirName(path) IN
    IF d \in DOMAIN f /\ f[d] = "file" THEN "ERR"
    ELSE IF d \in DOMAIN f /\ f[d] = "absent" THEN "ENOENT"
    ELSE IF f[path] = "absent" THEN "ENOENT"
    ELSE IF f[path] \in {"file", "dangling"} THEN "NOTDIR"
    ELSE "DIR"

\* g_access (tmp, F_OK) < 0: unlike lstat, access follows a symbolic link
g_access_fails(f, path) ==
    \/ g_lstat(f, path) \in {"ENOENT", "ERR"}
    \/ f[path] = "dangling"

\* g_mkdir_with_parents succeeds: no component of the path is a regular file
\* and the caller may write there (mayWrite: the EACCES outcome)
g_mkdir_ok(f, path, mayWrite) ==
    /\ mayWrite
    /\ g_lstat(f, path) \in {"ENOENT", "DIR"}

\* the file system after a successful g_mkdir_with_parents
g_mkdir_with_parents(f, path) ==
    LET d == DirName(path) IN
    [x \in DOMAIN f |->
        IF x = path /\ f[x] = "absent" THEN "empty"
        ELSE IF x = d THEN "nonempty"
        ELSE f[x]]

\* mutant of is_non_empty_directory: no directory is found to have entries
is_non_empty_directory_never(f, path) == FALSE

\* is_non_empty_directory: g_dir_open succeeds and g_dir_read_name finds an
\* entry
is_non_empty_directory(f, path) == f[path] = "nonempty"

(***************************************************************************)
(* Worktree placer.                                                        *)
(***************************************************************************)
\* mutant of is_worktree_of_repo: only mgr->tasks is looked at
is_worktree_of_repo_tasks_only(path) ==
    \E r \in DOMAIN tasks :
        /\ tasks[r].state \notin Terminal
        /\ tasks[r].worktree = path

\* mutant of is_worktree_of_repo: only the repo list is looked at
is_worktree_of_repo_repos_only(path) ==
    \E r \in DOMAIN repos : repos[r].worktree = path

\* is_worktree_of_repo: the path is the worktree of a repo of the repo list,
\* or of a task of mgr->tasks that is not DONE, ERROR or CANCELED
is_worktree_of_repo(path) ==
    \/ \E r \in DOMAIN repos : repos[r].worktree = path
    \/ \E r \in DOMAIN tasks :
          /\ tasks[r].state \notin Terminal
          /\ tasks[r].worktree = path

\* try_worktree: the first of worktree-1, worktree-2, ... that g_access does
\* not find; NULL once the counter is used up
RECURSIVE try_worktree_from(_, _, _)
try_worktree_from(f, worktree, cnt) ==
    IF cnt > MaxCnt THEN NULL
    ELSE IF g_access_fails(f, SuffixName(worktree, cnt))
         THEN SuffixName(worktree, cnt)
         ELSE try_worktree_from(f, worktree, cnt + 1)

try_worktree(f, worktree) == try_worktree_from(f, worktree, 1)

\* make_worktree: the path chosen (NULL on failure), the error set, and
\* whether the directory has been created
make_worktree(worktree, dry_run, mayWrite) ==
    LET wt == StripTail(worktree)
        rc == g_lstat(fs, wt)
        fail(msg) == [ret |-> NULL, error |-> msg, made |-> FALSE]
        mk_dir(path) ==
            IF ~dry_run /\ ~g_mkdir_ok(fs, path, mayWrite) THEN fail("")
            ELSE [ret |-> path, error |-> "", made |-> ~dry_run]
    IN IF rc = "ENOENT" THEN mk_dir(wt)
       ELSE IF rc \in {"ERR", "NOTDIR"}
            THEN IF ~dry_run THEN fail(ERR_BAD_DIR)
                 ELSE mk_dir(try_worktree(fs, wt))
       ELSE IF is_worktree_of_repo(wt)
            THEN IF ~dry_run THEN fail(ERR_IN_SYNC)
                 ELSE mk_dir(try_worktree(fs, wt))
       ELSE [ret |-> wt, error |-> "", made |-> FALSE]

\* mutant of seaf_clone_manager_gen_default_worktree: make_worktree is
\* called in commit mode
gen_default_worktree_commits(worktree_parent, repo_name) ==
    LET wt == g_build_filename(worktree_parent, repo_name)
        mw == make_worktree(wt, FALSE, TRUE)
    IN [path |-> IF mw.ret = NULL THEN wt ELSE mw.ret, made |-> mw.made]

\* seaf_clone_manager_gen_default_worktree: the path returned, and whether
\* make_worktree created a directory
seaf_clone_manager_gen_default_worktree(worktree_parent, repo_name) ==
    LET wt == g_build_filename(worktree_parent, repo_name)
        mw == make_worktree(wt, TRUE, TRUE)
    IN [path |-> IF mw.ret = NULL THEN wt ELSE mw.ret, made |-> mw.made]

(***************************************************************************)
(* Tasks, rows and the state the handlers work on.                         *)
(*                                                                         *)
(* The fields of CloneTask that are only copied through (repo_name, token, *)
(* peer_id, peer_addr, peer_port, email) are left out.  tx_id and root_id  *)
(* are kept as "set" / "not set".                                          *)
(*                                                                         *)
(* A handler works on a context c: the part of the state it may change,    *)
(* with c.t the CloneTask it is working on (which, in add_task and         *)
(* restart_task, is not yet in mgr->tasks).                                *)
(***************************************************************************)
\* clone_task_new: g_new0 zeroes state (INIT), error (ok), tx_id, root_id
clone_task_new(worktree, passwd) ==
    [state |-> CLONE_STATE_INIT, error |-> CLONE_OK, tx_id |-> FALSE,
     worktree |-> worktree, passwd |-> passwd, root_id |-> FALSE]

Ctx(t) ==
    [t |-> t, tasks |-> tasks, db |-> db, repos |-> repos, fs |-> fs,
     idx |-> idx, tx |-> tx, co |-> co, mj |-> mj,
     fault |-> fault]

\* the context with the task of repo_id r loaded from mgr->tasks
CtxOf(r) == Ctx(tasks[r])

\* g_hash_table_insert (mgr->tasks, repo_id, task): an old task of the same
\* key is freed
g_hash_table_insert(c, r) ==
    [c EXCEPT !.tasks =
        [x \in DOMAIN c.tasks \cup {r} |-> IF x = r THEN c.t ELSE c.tasks[x]]]

\* write c.t back to the task of r that mgr->tasks already holds
Store(c, r) == [c EXCEPT !.tasks[r] = c.t]

\* save_task_to_db: "REPLACE INTO CloneTasks VALUES (...)"; the table has
\* no key, so the statement adds a row
save_task_to_db(c, r) ==
    [c EXCEPT !.db =
        @ \cup {[repo_id |-> r, worktree |-> c.t.worktree,
                 passwd |-> c.t.passwd]}]

\* remove_task_from_db: "DELETE FROM CloneTasks WHERE repo_id=..."
remove_task_from_db(c, r) ==
    [c EXCEPT !.db = {row \in @ : row.repo_id # r}]

\* mutant of transition_state: the row is not deleted on a terminal state
transition_state_keeps_row(c, r, new_state) ==
    [c EXCEPT !.t.state = new_state]

\* transition_state
transition_state(c, r, new_state) ==
    LET c1 == IF new_state \in Terminal THEN remove_task_from_db(c, r) ELSE c
    IN [c1 EXCEPT !.t.state = new_state]

\* mutant of transition_to_error: task->error is not assigned
transition_to_error_keeps_ok(c, r, error) ==
    LET c1 == remove_task_from_db(c, r)
    IN [c1 EXCEPT !.t.state = CLONE_STATE_ERROR]

\* transition_to_error
transition_to_error(c, r, error) ==
    LET c1 == remove_task_from_db(c, r)
    IN [c1 EXCEPT !.t.state = CLONE_STATE_ERROR, !.t.error = error]

\* a job, transfer or checkout is handed to its executor; two at once for one
\* repository would be delivered to the same task
Schedule(c, slot, r, v) ==
    IF c[slot][r] = "none"
    THEN [c EXCEPT ![slot][r] = v]
    ELSE [c EXCEPT !.fault = "overlap"]

\* mutant of add_transfer_task: the download is added but what
\* seaf_transfer_manager_add_download returns is not kept in task->tx_id
add_transfer_task_drops_tx_id(c, r, dlOk) ==
    IF dlOk THEN Schedule(c, "tx", r, "run") ELSE c

\* add_transfer_task: tx_id is what seaf_transfer_manager_add_download
\* returns (NULL when it refuses), and -1 is returned when it is NULL
add_transfer_task(c, r, dlOk) ==
    IF dlOk
    THEN Schedule([c EXCEPT !.t.tx_id = TRUE], "tx", r, "run")
    ELSE [c EXCEPT !.t.tx_id = FALSE]

\* mutant of start_index_or_transfer: the index job is scheduled and the
\* task's state is left as it is
start_index_or_transfer_unmarked(c, r, dlOk) ==
    IF is_non_empty_directory(c.fs, c.t.worktree)
    THEN Schedule(c, "idx", r, "run")
    ELSE LET c1 == add_transfer_task(c, r, dlOk) IN
         IF dlOk THEN transition_state(c1, r, CLONE_STATE_FETCH)
         ELSE transition_to_error(c1, r, CLONE_ERROR_FETCH)

\* start_index_or_transfer
start_index_or_transfer(c, r, dlOk) ==
    IF is_non_empty_directory(c.fs, c.t.worktree)
    THEN Schedule(transition_state(c, r, CLONE_STATE_INDEX), "idx", r, "run")
    ELSE LET c1 == add_transfer_task(c, r, dlOk) IN
         IF dlOk THEN transition_state(c1, r, CLONE_STATE_FETCH)
         ELSE transition_to_error(c1, r, CLONE_ERROR_FETCH)

\* is_task_relay_connected: peer && peer->net_state == PEER_CONNECTED
is_task_relay_connected == peer = "up"

\* mutant of start_connect_task_relay: the task is left as clone_task_new
\* made it
start_connect_task_relay_no_transition(c, r) == c

\* start_connect_task_relay: with or without the "add-relay" command sent to
\* ccnet for an unknown peer, the task goes to CONNECT
start_connect_task_relay(c, r) ==
    IF peer = "none" THEN transition_state(c, r, CLONE_STATE_CONNECT)
    ELSE transition_state(c, r, CLONE_STATE_CONNECT)

\* mutant of is_duplicate_task: a task in CANCEL_PENDING counts as finished
is_duplicate_task_not_pending(r) ==
    /\ r \in DOMAIN tasks
    /\ tasks[r].state \notin Terminal \cup {CLONE_STATE_CANCEL_PENDING}

\* mutant of is_duplicate_task: no task counts as in progress
is_duplicate_task_never(r) == FALSE

\* is_duplicate_task
is_duplicate_task(r) ==
    /\ r \in DOMAIN tasks
    /\ tasks[r].state # CLONE_STATE_DONE
    /\ tasks[r].state # CLONE_STATE_ERROR
    /\ tasks[r].state # CLONE_STATE_CANCELED

\* start_checkout; setPwOk: seaf_repo_manager_set_repo_passwd succeeds
start_checkout(c, r, setPwOk) ==
    LET encrypted == enc[r] # "plain"
        plain ==
            IF ~is_non_empty_directory(c.fs, c.t.worktree)
            THEN Schedule(transition_state(c, r, CLONE_STATE_CHECKOUT),
                          "co", r, "run")
            ELSE Schedule(transition_state(c, r, CLONE_STATE_MERGE),
                          "mj", r, "run")
    IN IF encrypted /\ c.t.passwd # "none"
       THEN IF enc[r] = "enc1" /\ c.t.passwd = "bad"
            THEN transition_to_error(c, r, CLONE_ERROR_PASSWD)
            ELSE IF ~setPwOk
                 THEN transition_to_error(c, r, CLONE_ERROR_INTERNAL)
                 ELSE plain
       ELSE IF encrypted
            THEN transition_to_error(c, r, CLONE_ERROR_PASSWD)
            ELSE plain

\* the handler's context becomes the next state
Apply(c) ==
    /\ tasks' = c.tasks
    /\ db' = c.db
    /\ repos' = c.repos
    /\ fs' = c.fs
    /\ idx' = c.idx
    /\ tx' = c.tx
    /\ co' = c.co
    /\ mj' = c.mj
    /\ fault' = c.fault

NoRet ==
    [op |-> "none", id |-> "", wt |-> NULL, name |-> NULL, rc |-> "",
     error |-> "", sent |-> "none"]
\* hist[r]: "none"; "connect", "fetch" or "job": cancel_task was accepted for
\* the task while it was in CONNECT, in FETCH, or in INDEX, CHECKOUT or MERGE;
\* "lost_fetch", "lost_job": and the process then stopped while the task was
\* in CANCEL_PENDING; "restarted": startup recovery made the task from its
\* row (and it had not been canceled)
NoHist == "none"

CancelMark(st) ==
    IF st = CLONE_STATE_FETCH THEN "fetch"
    ELSE IF st \in {CLONE_STATE_INIT, CLONE_STATE_CONNECT} THEN "connect"
    ELSE "job"


(***************************************************************************)
(* The RPC surface.                                                        *)
(***************************************************************************)
Running == up /\ fault = "none"

\* ret: the call, its repo_id, worktree and repo_name arguments, what it
\* returned (rc "ok" or "fail", and the message of the GError it set), and
\* what it asked of the transfer manager for the task's tx_id ("cancel":
\* seaf_transfer_manager_cancel_task, "remove":
\* seaf_transfer_manager_remove_task)
Returns(op, r, wt, name, rc, error) ==
    ret' = [op |-> op, id |-> r, wt |-> wt, name |-> name, rc |-> rc,
            error |-> error, sent |-> "none"]

ReturnsSending(op, r, rc, sent) ==
    ret' = [op |-> op, id |-> r, wt |-> NULL, name |-> NULL, rc |-> rc,
            error |-> "", sent |-> sent]

\* the outcome of seaf_clone_manager_add_task: the error it returns ("" with
\* rc "fail" when NULL is returned with no error set) and the context it
\* leaves.  mayWrite: mkdir is permitted; dbOk: the REPLACE statement
\* succeeds; dlOk: add_download accepts; setPwOk: set_repo_passwd succeeds
seaf_clone_manager_add_task(r, repo_name, worktree_in, passwd,
                            mayWrite, dbOk, dlOk, setPwOk) ==
    LET fail(c, msg) == [rc |-> "fail", error |-> msg, c |-> c]
        c0 == Ctx(clone_task_new(NULL, passwd))
        mw == make_worktree(worktree_in, FALSE, mayWrite)
        c1 == IF mw.made
              THEN [c0 EXCEPT !.fs = g_mkdir_with_parents(fs, mw.ret),
                              !.t.worktree = mw.ret]
              ELSE [c0 EXCEPT !.t.worktree = mw.ret]
        c2 == save_task_to_db(c1, r)
        c3 == IF r \in DOMAIN repos /\ ~repos[r].head
              THEN start_checkout(c2, r, setPwOk)
              ELSE IF ~is_task_relay_connected
                   THEN start_connect_task_relay(c2, r)
                   ELSE start_index_or_transfer(c2, r, dlOk)
    IN IF r \in DOMAIN repos /\ repos[r].head THEN fail(c0, ERR_REPO_EXISTS)
       ELSE IF is_duplicate_task(r) THEN fail(c0, ERR_IN_PROGRESS)
       ELSE IF ~worktree_repo_name_matches(worktree_in, repo_name)
            THEN fail(c0, ERR_BAD_NAME)
       ELSE IF mw.ret = NULL THEN fail(c0, mw.error)
       ELSE IF ~dbOk THEN fail([c1 EXCEPT !.t = c0.t], "")
       ELSE [rc |-> "ok", error |-> "", c |-> g_hash_table_insert(c3, r)]

AddTask(r, repo_name, worktree_in, passwd, mayWrite, dbOk, dlOk, setPwOk) ==
    LET res == seaf_clone_manager_add_task(r, repo_name, worktree_in, passwd,
                                           mayWrite, dbOk, dlOk, setPwOk)
    IN /\ Running
       /\ Apply(res.c)
       /\ Returns("add_task", r, worktree_in, repo_name, res.rc, res.error)
       /\ hist' = IF res.rc = "ok" THEN [hist EXCEPT ![r] = NoHist] ELSE hist
       /\ genHist' = <<>>
       /\ UNCHANGED <<up, enc, peer>>

\* mutant of seaf_clone_manager_cancel_task: whatever state the task is in,
\* it is moved to CANCELED
cancel_task_any_state(r) ==
    IF r \notin DOMAIN tasks
    THEN [rc |-> "fail", sent |-> "none", c |-> Ctx(NULL)]
    ELSE [rc |-> "ok", sent |-> "none",
          c |-> Store(transition_state(CtxOf(r), r, CLONE_STATE_CANCELED),
                      r)]

\* seaf_clone_manager_cancel_task: the return code and the context
seaf_clone_manager_cancel_task(r) ==
    IF r \notin DOMAIN tasks
    THEN [rc |-> "fail", sent |-> "none", c |-> Ctx(NULL)]
    ELSE
    LET c == CtxOf(r)
        st == tasks[r].state
    IN IF st \in {CLONE_STATE_INIT, CLONE_STATE_CONNECT}
       THEN [rc |-> "ok", sent |-> "none",
             c |-> Store(transition_state(c, r, CLONE_STATE_CANCELED), r)]
       ELSE IF st = CLONE_STATE_FETCH
       THEN \* seaf_transfer_manager_cancel_task (tx_id)
            LET c1 == IF c.tx[r] = "run"
                      THEN [c EXCEPT !.tx[r] = "cancelling"] ELSE c
            IN [rc |-> "ok", sent |-> "cancel",
                c |-> Store(transition_state(c1, r,
                                             CLONE_STATE_CANCEL_PENDING), r)]
       ELSE IF st \in {CLONE_STATE_INDEX, CLONE_STATE_CHECKOUT,
                       CLONE_STATE_MERGE}
       THEN [rc |-> "ok", sent |-> "none",
             c |-> Store(transition_state(c, r,
                                          CLONE_STATE_CANCEL_PENDING), r)]
       ELSE IF st = CLONE_STATE_CANCEL_PENDING
       THEN [rc |-> "ok", sent |-> "none", c |-> c]
       ELSE [rc |-> "fail", sent |-> "none", c |-> c]

CancelTask(r) ==
    LET res == seaf_clone_manager_cancel_task(r) IN
    /\ Running
    /\ Apply(res.c)
    /\ ReturnsSending("cancel_task", r, res.rc, res.sent)
    /\ hist' = IF /\ r \in DOMAIN tasks
                  /\ tasks[r].state \notin
                        Terminal \cup {CLONE_STATE_CANCEL_PENDING}
               THEN [hist EXCEPT ![r] = CancelMark(tasks[r].state)]
               ELSE hist
    /\ genHist' = <<>>
    /\ UNCHANGED <<up, enc, peer>>

\* seaf_clone_manager_gen_default_worktree called over RPC.  Calls made back
\* to back with the same arguments are recorded in genHist.  The counter of
\* try_worktree is not used up: one of the MaxCnt numbered names is free.
GenDefaultWorktree(worktree_parent, repo_name) ==
    LET res == seaf_clone_manager_gen_default_worktree(worktree_parent,
                                                       repo_name)
        wt == g_build_filename(worktree_parent, repo_name)
    IN /\ Running
       /\ Len(genHist) < MaxGen
       /\ genHist # <<>> =>
             /\ genHist[1].parent = worktree_parent
             /\ genHist[1].name = repo_name
       /\ \E k \in 1..MaxCnt : g_access_fails(fs, SuffixName(wt, k))
       /\ fs' = IF res.made THEN g_mkdir_with_parents(fs, res.path) ELSE fs
       /\ genHist' = Append(genHist,
                            [parent |-> worktree_parent, name |-> repo_name,
                             path |-> res.path, made |-> res.made])
       /\ Returns("gen_default_worktree", "", worktree_parent, repo_name,
                  "ok", "")
       /\ UNCHANGED <<up, tasks, db, repos, enc, peer, idx, tx, co, mj,
                      fault, hist>>

\* mutant of seaf_clone_manager_remove_task: the state of the task is not
\* looked at
remove_task_any_state(r) ==
    IF r \notin DOMAIN tasks
    THEN [rc |-> "fail", sent |-> "none", c |-> Ctx(NULL)]
    ELSE [rc |-> "ok",
          sent |-> IF tasks[r].tx_id THEN "remove" ELSE "none",
          c |-> [Ctx(NULL) EXCEPT
                   !.tasks = [x \in DOMAIN tasks \ {r} |-> tasks[x]]]]

\* seaf_clone_manager_remove_task
seaf_clone_manager_remove_task(r) ==
    IF r \notin DOMAIN tasks
    THEN [rc |-> "fail", sent |-> "none", c |-> Ctx(NULL)]
    ELSE IF tasks[r].state \notin Terminal
    THEN [rc |-> "fail", sent |-> "none", c |-> Ctx(NULL)]
    ELSE [rc |-> "ok",
          sent |-> IF tasks[r].tx_id THEN "remove" ELSE "none",
          c |-> [Ctx(NULL) EXCEPT
                   !.tasks = [x \in DOMAIN tasks \ {r} |-> tasks[x]]]]

RemoveTask(r) ==
    LET res == seaf_clone_manager_remove_task(r) IN
    /\ Running
    /\ Apply(res.c)
    /\ ReturnsSending("remove_task", r, res.rc, res.sent)
    /\ hist' = IF res.rc = "ok" THEN [hist EXCEPT ![r] = NoHist] ELSE hist
    /\ genHist' = <<>>
    /\ UNCHANGED <<up, enc, peer>>

(***************************************************************************)
(* Connection poller.                                                      *)
(***************************************************************************)
\* mutant of continue_task_when_peer_connected: the peer is not asked for
continue_task_whatever_peer(c, r, dlOk) == start_index_or_transfer(c, r, dlOk)

\* continue_task_when_peer_connected
continue_task_when_peer_connected(c, r, dlOk) ==
    IF peer = "up" THEN start_index_or_transfer(c, r, dlOk) ELSE c

\* mutant of check_connect_pulse: tasks that were canceled are continued too
RECURSIVE check_connect_pulse_canceled_too(_, _, _)
check_connect_pulse_canceled_too(c, todo, dl) ==
    IF todo = {} THEN c
    ELSE LET r == CHOOSE x \in todo : TRUE
             c1 == IF c.tasks[r].state \in
                         {CLONE_STATE_CONNECT, CLONE_STATE_CANCELED}
                   THEN Store(continue_task_when_peer_connected(
                                  [c EXCEPT !.t = c.tasks[r]], r, dl[r]), r)
                   ELSE c
         IN check_connect_pulse_canceled_too(c1, todo \ {r}, dl)

\* mutant of check_connect_pulse: the timer fires and no task is looked at
check_connect_pulse_idle(c, todo, dl) == c

\* check_connect_pulse: every task of mgr->tasks that is in CONNECT
RECURSIVE check_connect_pulse(_, _, _)
check_connect_pulse(c, todo, dl) ==
    IF todo = {} THEN c
    ELSE LET r == CHOOSE x \in todo : TRUE
             c1 == IF c.tasks[r].state = CLONE_STATE_CONNECT
                   THEN Store(continue_task_when_peer_connected(
                                  [c EXCEPT !.t = c.tasks[r]], r, dl[r]), r)
                   ELSE c
         IN check_connect_pulse(c1, todo \ {r}, dl)

Quiet ==
    /\ ret' = NoRet
    /\ genHist' = <<>>

Poll(dl) ==
    /\ Running
    /\ Apply(check_connect_pulse(Ctx(NULL), DOMAIN tasks, dl))
    /\ Quiet
    /\ UNCHANGED <<up, enc, peer, hist>>

(***************************************************************************)
(* Index job.                                                              *)
(***************************************************************************)
\* index_files_job and index_files_done; success: the outcome of
\* seaf_repo_index_worktree_files, which fills task->root_id
index_files_done(r, success, dlOk) ==
    LET c0 == [CtxOf(r) EXCEPT !.idx[r] = "none"]
        c == IF success THEN [c0 EXCEPT !.t.root_id = TRUE] ELSE c0
    IN IF ~success THEN transition_to_error(c, r, CLONE_ERROR_INDEX)
       ELSE IF c.t.state = CLONE_STATE_CANCEL_PENDING
            THEN transition_state(c, r, CLONE_STATE_CANCELED)
       ELSE IF ~dlOk
            THEN transition_to_error(add_transfer_task(c, r, dlOk), r,
                                     CLONE_ERROR_FETCH)
       ELSE transition_state(add_transfer_task(c, r, dlOk), r,
                             CLONE_STATE_FETCH)

IndexDone(r, success, dlOk) ==
    /\ Running
    /\ idx[r] = "run"
    /\ IF r \in DOMAIN tasks
       THEN Apply(Store(index_files_done(r, success, dlOk), r))
       ELSE Apply([Ctx(NULL) EXCEPT !.fault = "freed", !.idx[r] = "none"])
    /\ Quiet
    /\ UNCHANGED <<up, enc, peer, hist>>

(***************************************************************************)
(* Transfer.                                                               *)
(***************************************************************************)
\* the transfer manager creates the local repository while it downloads
TransferCreatesRepo(r) ==
    /\ Running
    /\ tx[r] # "none"
    /\ r \notin DOMAIN repos
    /\ repos' = [x \in DOMAIN repos \cup {r} |->
                    IF x = r THEN [head |-> FALSE, worktree |-> NULL]
                    ELSE repos[x]]
    /\ Quiet
    /\ UNCHANGED <<up, tasks, db, enc, fs, peer, idx, tx, co, mj,
                   fault, hist>>

\* on_repo_fetched for a clone transfer that ended in tx_state
on_repo_fetched(r, tx_state, setPwOk) ==
    LET c == [CtxOf(r) EXCEPT !.tx[r] = "none"]
    IN IF tx_state = "canceled"
       THEN transition_state(c, r, CLONE_STATE_CANCELED)
       ELSE IF tx_state = "error"
       THEN transition_to_error(c, r, CLONE_ERROR_FETCH)
       ELSE IF r \notin DOMAIN c.repos
       THEN transition_to_error(c, r, CLONE_ERROR_INTERNAL)
       ELSE start_checkout(c, r, setPwOk)

RepoFetched(r, tx_state, setPwOk) ==
    /\ Running
    /\ tx[r] # "none"
    /\ IF r \in DOMAIN tasks
       THEN Apply(Store(on_repo_fetched(r, tx_state, setPwOk), r))
       ELSE Apply([Ctx(NULL) EXCEPT !.fault = "assert", !.tx[r] = "none"])
    /\ Quiet
    /\ UNCHANGED <<up, enc, peer, hist>>

(***************************************************************************)
(* Checkout.                                                               *)
(***************************************************************************)
\* the checkout task of the repo manager runs: on success the files are in
\* the worktree, the head is set and the repo points at the worktree
CheckoutRuns(r, success) ==
    /\ Running
    /\ co[r] = "run"
    /\ r \in DOMAIN tasks /\ r \in DOMAIN repos
    /\ co' = [co EXCEPT ![r] = IF success THEN "ok" ELSE "fail"]
    /\ repos' = IF success
                THEN [repos EXCEPT ![r] = [head |-> TRUE,
                                           worktree |-> tasks[r].worktree]]
                ELSE repos
    /\ fs' = IF success THEN [fs EXCEPT ![tasks[r].worktree] = "nonempty"]
             ELSE fs
    /\ Quiet
    /\ UNCHANGED <<up, tasks, db, enc, peer, idx, tx, mj, fault,
                   hist>>

\* mutant of on_checkout_done: a successful checkout always ends in DONE
on_checkout_done_ignores_cancel(r) ==
    LET success == co[r] = "ok"
        c == [CtxOf(r) EXCEPT !.co[r] = "none"]
    IN IF ~success THEN transition_to_error(c, r, CLONE_ERROR_CHECKOUT)
       ELSE transition_state(c, r, CLONE_STATE_DONE)

\* on_checkout_done
on_checkout_done(r) ==
    LET success == co[r] = "ok"
        c == [CtxOf(r) EXCEPT !.co[r] = "none"]
    IN IF ~success THEN transition_to_error(c, r, CLONE_ERROR_CHECKOUT)
       ELSE IF c.t.state = CLONE_STATE_CANCEL_PENDING
            THEN transition_state(c, r, CLONE_STATE_CANCELED)
       ELSE IF c.t.state = CLONE_STATE_CHECKOUT
            THEN transition_state(c, r, CLONE_STATE_DONE)
       ELSE [c EXCEPT !.fault = "assert"]

CheckoutDone(r) ==
    /\ Running
    /\ co[r] \in {"ok", "fail"}
    /\ IF r \in DOMAIN tasks
       THEN Apply(Store(on_checkout_done(r), r))
       ELSE Apply([Ctx(NULL) EXCEPT !.fault = "assert", !.co[r] = "none"])
    /\ Quiet
    /\ UNCHANGED <<up, enc, peer, hist>>

(***************************************************************************)
(* Merge job.                                                              *)
(***************************************************************************)
\* what can happen inside merge_job:
\*   index_fail     seaf_repo_index_worktree_files fails (root_id not set)
\*   no_branch      branch "local" is not found
\*   no_commit      the head commit is not found
\*   ff_fail, ff_ok fast-forward: fast_forward_checkout fails / succeeds
\*   rm_index_fail  real_merge cannot load the index
\*   rm_fail        real_merge: merge_recursive fails or is not clean
\*   rm_clean       real_merge: merge_recursive merges cleanly
MergeOutcomes ==
    {"index_fail", "no_branch", "no_commit", "ff_fail", "ff_ok",
     "rm_index_fail", "rm_fail", "rm_clean"}

\* the merge really brought the worktree to the fetched head
MergeSucceeded(outcome) == outcome \in {"ff_ok", "rm_clean"}

\* real_merge: -1 only when the index cannot be read; the result of
\* merge_recursive is not looked at
real_merge(outcome) == IF outcome = "rm_index_fail" THEN -1 ELSE 0

\* fast_forward_checkout
fast_forward_checkout(outcome) == IF outcome = "ff_fail" THEN -1 ELSE 0

\* merge_job: aux->success, and whether seaf_repo_set_head has been called
merge_job(outcome) ==
    IF outcome \in {"index_fail", "no_branch", "no_commit"} THEN FALSE
    ELSE IF outcome \in {"ff_fail", "ff_ok"}
         THEN fast_forward_checkout(outcome) >= 0
         ELSE real_merge(outcome) >= 0

MergeJobRuns(r, outcome) ==
    /\ Running
    /\ mj[r] = "run"
    /\ r \in DOMAIN tasks /\ r \in DOMAIN repos
    /\ outcome = "index_fail" => ~tasks[r].root_id
    /\ mj' = [mj EXCEPT ![r] = outcome]
    /\ tasks' = IF outcome # "index_fail"
                THEN [tasks EXCEPT ![r].root_id = TRUE] ELSE tasks
    /\ repos' = IF merge_job(outcome)
                THEN [repos EXCEPT ![r].head = TRUE] ELSE repos
    /\ Quiet
    /\ UNCHANGED <<up, db, enc, fs, peer, idx, tx, co, fault,
                   hist>>

\* merge_job_done
merge_job_done(r) ==
    LET success == merge_job(mj[r])
        c == [CtxOf(r) EXCEPT !.mj[r] = "none"]
        \* seaf_repo_manager_set_repo_worktree (repo, task->worktree)
        c1 == [c EXCEPT !.repos[r].worktree = c.t.worktree]
    IN IF ~success THEN transition_to_error(c, r, CLONE_ERROR_MERGE)
       ELSE IF c.t.state = CLONE_STATE_CANCEL_PENDING
            THEN transition_state(c1, r, CLONE_STATE_CANCELED)
       ELSE IF c.t.state = CLONE_STATE_MERGE
            THEN transition_state(c1, r, CLONE_STATE_DONE)
       ELSE [c1 EXCEPT !.fault = "assert"]

MergeJobDone(r) ==
    /\ Running
    /\ mj[r] \in MergeOutcomes
    /\ IF r \in DOMAIN tasks
       THEN Apply(Store(merge_job_done(r), r))
       ELSE Apply([Ctx(NULL) EXCEPT !.fault = "freed", !.mj[r] = "none"])
    /\ Quiet
    /\ UNCHANGED <<up, enc, peer, hist>>

(***************************************************************************)
(* Crash and startup recovery.                                             *)
(***************************************************************************)
AllNone == [r \in RepoIds |-> "none"]
EmptyMap == [x \in {} |-> NULL]

\* the process dies: mgr->tasks and whatever was scheduled are gone, the
\* table, the repositories and the file system stay
Crash ==
    /\ Running
    /\ up' = FALSE
    /\ tasks' = EmptyMap
    /\ idx' = AllNone /\ tx' = AllNone /\ co' = AllNone /\ mj' = AllNone
    /\ hist' = [r \in RepoIds |->
                  IF r \in DOMAIN tasks
                     /\ tasks[r].state = CLONE_STATE_CANCEL_PENDING
                     /\ hist[r] \in {"fetch", "job"}
                  THEN IF hist[r] = "fetch" THEN "lost_fetch" ELSE "lost_job"
                  ELSE NoHist]
    /\ Quiet
    /\ UNCHANGED <<db, repos, enc, fs, peer, fault>>

\* mutant of restart_task: the repository is not looked up, every row starts
\* from the beginning
restart_task_from_start(c, row, dlOk, setPwOk) ==
    LET r == row.repo_id
        c0 == [c EXCEPT !.t = clone_task_new(row.worktree, row.passwd)]
    IN IF ~is_task_relay_connected
       THEN g_hash_table_insert(start_connect_task_relay(c0, r), r)
       ELSE g_hash_table_insert(start_index_or_transfer(c0, r, dlOk), r)

\* mutant of restart_task: the row is deleted once its task is registered
restart_task_forgets_row(c, row, dlOk, setPwOk) ==
    LET r == row.repo_id
        c0 == [c EXCEPT !.t = clone_task_new(row.worktree, row.passwd)]
        c1 == IF r \in DOMAIN c.repos
              THEN IF c.repos[r].head
                   THEN g_hash_table_insert(
                            transition_state(c0, r, CLONE_STATE_DONE), r)
                   ELSE Store(start_checkout(g_hash_table_insert(c0, r), r,
                                             setPwOk), r)
              ELSE IF ~is_task_relay_connected
                   THEN g_hash_table_insert(start_connect_task_relay(c0, r), r)
                   ELSE g_hash_table_insert(
                            start_index_or_transfer(c0, r, dlOk), r)
    IN remove_task_from_db(c1, r)

\* restart_task for one row of CloneTasks
restart_task(c, row, dlOk, setPwOk) ==
    LET r == row.repo_id
        c0 == [c EXCEPT !.t = clone_task_new(row.worktree, row.passwd)]
    IN IF r \in DOMAIN c.repos
       THEN IF c.repos[r].head
            THEN g_hash_table_insert(
                     transition_state(c0, r, CLONE_STATE_DONE), r)
            ELSE Store(start_checkout(g_hash_table_insert(c0, r), r,
                                      setPwOk), r)
       ELSE IF ~is_task_relay_connected
            THEN g_hash_table_insert(start_connect_task_relay(c0, r), r)
            ELSE g_hash_table_insert(start_index_or_transfer(c0, r, dlOk), r)

\* seaf_clone_manager_init: restart_task for each selected row
RECURSIVE seaf_clone_manager_init(_, _, _, _)
seaf_clone_manager_init(c, rows, dl, setPw) ==
    IF rows = {} THEN c
    ELSE LET row == CHOOSE x \in rows : TRUE
         IN seaf_clone_manager_init(
                restart_task(c, row, dl[row.repo_id], setPw[row.repo_id]),
                rows \ {row}, dl, setPw)

Recover(dl, setPw) ==
    /\ ~up
    /\ fault = "none"
    /\ up' = TRUE
    /\ Apply(seaf_clone_manager_init(Ctx(NULL), db, dl, setPw))
    /\ Returns("init", "", NULL, NULL, "ok", "")
    /\ genHist' = <<>>
    /\ hist' = [r \in RepoIds |->
                  IF \E row \in db : row.repo_id = r
                  THEN IF hist[r] = NoHist THEN "restarted" ELSE hist[r]
                  ELSE NoHist]
    /\ UNCHANGED <<enc, peer>>

(***************************************************************************)
(* The relay.                                                              *)
(***************************************************************************)
\* ccnet gets to know the relay, connects to it, or loses the connection
PeerChanges ==
    /\ fault = "none"
    /\ \/ peer = "none" /\ peer' = "down"
       \/ peer = "down" /\ peer' = "up"
       \/ peer = "up" /\ peer' = "down"
    /\ Quiet
    /\ UNCHANGED <<up, tasks, db, repos, enc, fs, idx, tx, co, mj,
                   fault, hist>>

(***************************************************************************)
(* Environments.                                                           *)
(***************************************************************************)
P(name) == g_build_filename(<<"p">>, name)

\* what can go wrong around one call: nothing, mkdir is refused (EACCES),
\* the Task Store write fails, add_download refuses, set_repo_passwd fails
Envs == {"ok", "eacces", "dbfail", "dlfail", "pwfail"}

\* passphrases offered for a repository
PasswdsFor(r) ==
    IF enc[r] = "plain" THEN {"none"}
    ELSE IF enc[r] = "enc0" THEN {"bad"}
    ELSE Passwds

InitCommon ==
    /\ up = TRUE
    /\ tasks = EmptyMap
    /\ db = {}
    /\ idx = AllNone /\ tx = AllNone /\ co = AllNone /\ mj = AllNone
    /\ fault = "none"
    /\ ret = NoRet
    /\ hist = [r \in RepoIds |-> NoHist]
    /\ genHist = <<>>

\* the steps of the clone manager and of its collaborators, ccnet apart, for
\* the repositories R, with add_task called with the worktrees W and names N
\* in the environments E and merge jobs ending in one of M
Steps(R, W, N, E, M) ==
    \/ \E r \in R, wt \in W, name \in N, env \in E :
          \E pw \in PasswdsFor(r) :
             AddTask(r, name, wt, pw, env # "eacces", env # "dbfail",
                     env # "dlfail", env # "pwfail")
    \/ \E r \in R : CancelTask(r)
    \/ \E r \in R : RemoveTask(r)
    \/ \E dl \in [RepoIds -> BOOLEAN] : (\A r \in RepoIds \ R : dl[r]) /\ Poll(dl)
    \/ \E r \in R, success, dlOk \in BOOLEAN :
          (~success => dlOk) /\ IndexDone(r, success, dlOk)
    \/ \E r \in R : TransferCreatesRepo(r)
    \/ \E r \in R, st \in {"finished", "error", "canceled"},
          setPwOk \in BOOLEAN :
          (st # "finished" => setPwOk) /\ RepoFetched(r, st, setPwOk)
    \/ \E r \in R, success \in BOOLEAN : CheckoutRuns(r, success)
    \/ \E r \in R : CheckoutDone(r)
    \/ \E r \in R, o \in M : MergeJobRuns(r, o)
    \/ \E r \in R : MergeJobDone(r)
    \/ Crash
    \/ \E e \in [RepoIds -> {"ok", "dlfail", "pwfail"}] :
          /\ \A r \in RepoIds \ R : e[r] = "ok"
          /\ Recover([r \in RepoIds |-> e[r] # "dlfail"],
                     [r \in RepoIds |-> e[r] # "pwfail"])

(***************************************************************************)
(* Specification of the clone pipeline: one repository, plain or           *)
(* encrypted, cloned into a new directory or into a directory with files.  *)
(***************************************************************************)
\* the file system at the start: parent p holds a directory "ab" with files
\* in it; nothing else exists
MainFs ==
    [x \in {<<"p">>, P(<<"a">>), P(<<"a", "b">>)} |->
        IF x = P(<<"a">>) THEN "absent" ELSE "nonempty"]

\* worktree arguments of add_task in the pipeline specification
MainWorktrees == {P(<<"a">>), P(<<"a", "b">>) \o <<"/">>}

Init ==
    /\ InitCommon
    /\ repos = EmptyMap
    /\ enc \in {[r \in RepoIds |-> IF r = "r1" THEN e ELSE "plain"] :
                   e \in EncKinds}
    /\ fs = MainFs
    /\ peer \in {"none", "up"}

Next ==
    \/ Steps({"r1"}, MainWorktrees, {<<"a">>}, Envs, MergeOutcomes)
    \/ PeerChanges

Spec == Init /\ [][Next]_vars

(***************************************************************************)
(* Specification of two clones side by side: two unencrypted repositories  *)
(* competing for the same two directories, the relay staying as it is.     *)
(***************************************************************************)
InitTwo ==
    /\ InitCommon
    /\ repos = EmptyMap
    /\ enc = [r \in RepoIds |-> "plain"]
    /\ fs = MainFs
    /\ peer \in {"down", "up"}

NextTwo == Steps(RepoIds, MainWorktrees, {<<"a">>}, {"ok"}, {"ff_ok"})

SpecTwo == InitTwo /\ [][NextTwo]_vars

(***************************************************************************)
(* Specification of the worktree placer: gen_default_worktree and add_task *)
(* over file trees with files, directories and dangling links, next to a   *)
(* repository that is already checked out.                                 *)
(***************************************************************************)
Q(name) == g_build_filename(<<"q">>, name)

\* the file trees at the start: p is a directory and q a regular file;
\* p/a and p/a-1 are as chosen, nothing else exists
PlacerFs ==
    {[x \in FsPaths |->
        IF x = <<"p">> THEN "nonempty"
        ELSE IF x = <<"q">> THEN "file"
        ELSE IF x = P(<<"a">>) THEN ka
        ELSE IF x = P(SuffixName(<<"a">>, 1)) THEN k1
        ELSE "absent"] :
       ka \in {"absent", "file", "nonempty"},
       k1 \in {"absent", "dangling", "nonempty"}}

\* worktree arguments of add_task in the placer specification
PlacerWorktrees ==
    {P(<<"a">>), P(SuffixName(<<"a">>, 1)) \o <<"/">>, P(<<"a", "b">>),
     Q(SuffixName(<<"a">>, 1))}

\* repository r2, when it is known, is checked out in p/a
InitWT ==
    /\ InitCommon
    /\ enc = [r \in RepoIds |-> "plain"]
    /\ fs \in PlacerFs
    /\ repos \in
          {EmptyMap} \cup
          (IF fs[P(<<"a">>)] = "nonempty"
           THEN {[x \in {"r2"} |->
                    [head |-> TRUE, worktree |-> P(<<"a">>)]]}
           ELSE {})
    /\ peer = "down"

NextWT ==
    \/ \E par \in Parents, name \in RepoNames : GenDefaultWorktree(par, name)
    \/ \E r \in RepoIds, wt \in PlacerWorktrees, name \in RepoNames :
          AddTask(r, name, wt, "none", TRUE, TRUE, TRUE, TRUE)
    \/ \E r \in RepoIds : CancelTask(r)
    \/ \E r \in RepoIds : RemoveTask(r)

SpecWT == InitWT /\ [][NextWT]_vars

(***************************************************************************)
(* Properties.                                                             *)
(***************************************************************************)
HasRow(r) == \E row \in db : row.repo_id = r

HasTask(r) == r \in DOMAIN tasks

StateOf(r) == IF HasTask(r) THEN tasks[r].state ELSE "none"

NonTerminal(r) == HasTask(r) /\ tasks[r].state \notin Terminal

C2_CancelAbsorbing ==
    \A r \in RepoIds :
        (HasTask(r) /\ hist[r] \in {"connect", "fetch", "job"})
            => tasks[r].state \notin {CLONE_STATE_DONE, CLONE_STATE_ERROR}

\* C3: a task canceled while in FETCH never enters CHECKOUT or MERGE, and no
\* checkout or merge is scheduled for it, whatever the transfer reports.
C3_CancelDuringFetch ==
    \A r \in RepoIds :
        (HasTask(r) /\ hist[r] = "fetch")
            => /\ tasks[r].state \notin
                     {CLONE_STATE_CHECKOUT, CLONE_STATE_MERGE}
               /\ co[r] = "none" /\ mj[r] = "none"

BecomesDone(r) ==
    /\ r \in DOMAIN tasks' /\ tasks'[r].state = CLONE_STATE_DONE
    /\ StateOf(r) # CLONE_STATE_DONE

ViaCheckoutDone(r) ==
    /\ StateOf(r) = CLONE_STATE_CHECKOUT
    /\ co[r] = "ok" /\ co'[r] = "none"

ViaMergeJobDone(r) ==
    /\ StateOf(r) = CLONE_STATE_MERGE
    /\ mj[r] \in MergeOutcomes /\ merge_job(mj[r]) /\ mj'[r] = "none"

ViaRecovery(r) ==
    /\ ~up /\ up'
    /\ HasRow(r) /\ r \in DOMAIN repos /\ repos[r].head

\* C4 as stated: a task becomes DONE only by a successful checkout completion
\* in CHECKOUT or a successful merge job completion in MERGE.
C4_DoneOnlyByCheckoutOrMerge ==
    [][\A r \in RepoIds :
          BecomesDone(r) => ViaCheckoutDone(r) \/ ViaMergeJobDone(r)]_vars

\* C4 amended: ... or by startup recovery, for a row whose repository exists
\* with its head set.
C4_DoneOnlyByCheckoutMergeOrRecovery ==
    [][\A r \in RepoIds :
          BecomesDone(r) =>
             ViaCheckoutDone(r) \/ ViaMergeJobDone(r) \/ ViaRecovery(r)]_vars

\* startup recovery has just returned and left a task DONE
C4_Witness ==
    /\ ret.op = "init"
    /\ \E r \in RepoIds : HasTask(r) /\ tasks[r].state = CLONE_STATE_DONE

\* C5 (a consequence of it): a task canceled while in INDEX, CHECKOUT or MERGE
\* ends CANCELED or ERROR when the process keeps running, so it does not end
\* DONE either when the process stopped while the task was in CANCEL_PENDING
\* and startup recovery took it up again.
C5_RestartKeepsOutcome ==
    \A r \in RepoIds :
        (HasTask(r) /\ hist[r] = "lost_job")
            => tasks[r].state # CLONE_STATE_DONE

\* the same without the restart: this is what the running process guarantees
C5_NoRestartOutcome ==
    \A r \in RepoIds :
        (HasTask(r) /\ hist[r] = "job")
            => tasks[r].state # CLONE_STATE_DONE

\* C6: the worktree of every task that is not DONE, ERROR or CANCELED is an
\* existing directory, no two such tasks have the same worktree path, and no
\* such task's worktree is the worktree of a known repository other than the
\* one the task clones.
C6_WorktreeExclusive ==
    \A r \in RepoIds :
        NonTerminal(r) =>
            /\ g_lstat(fs, tasks[r].worktree) = "DIR"
            /\ \A o \in RepoIds \ {r} :
                  /\ NonTerminal(o) => tasks[o].worktree # tasks[r].worktree
                  /\ o \in DOMAIN repos =>
                        repos[o].worktree # tasks[r].worktree

\* add_task has just been refused the directory that the clone of another
\* repository is using
C6_Witness ==
    /\ ret.op = "add_task" /\ ret.error = ERR_IN_SYNC
    /\ \E r \in RepoIds \ {ret.id} :
          NonTerminal(r) /\ tasks[r].worktree = StripTail(ret.wt)

IsAddTask == ret'.op = "add_task"

RowsOf(d, r) == {row \in d : row.repo_id = r}

\* C7: add_task for a repo_id whose task is not DONE, ERROR or CANCELED fails,
\* with "Task is already in progress" unless the repository is checked out
\* ("Repo already exists" then), and changes neither the registry, the Task
\* Store, the file system nor what is scheduled; no repo_id ever has two rows.
C7_DuplicateAdmission ==
    [][/\ \A r \in RepoIds :
            (IsAddTask /\ ret'.id = r /\ NonTerminal(r)) =>
                /\ ret'.rc = "fail"
                /\ ret'.error =
                      IF r \in DOMAIN repos /\ repos[r].head
                      THEN ERR_REPO_EXISTS ELSE ERR_IN_PROGRESS
                /\ UNCHANGED <<tasks, db, fs, repos, idx, tx, co, mj, hist>>
       /\ \A r \in RepoIds : Cardinality(RowsOf(db', r)) <= 1]_vars

\* add_task has just been refused for a repository that is being fetched
C7_Witness ==
    /\ ret.op = "add_task" /\ ret.error = ERR_IN_PROGRESS
    /\ HasTask(ret.id)
    /\ tasks[ret.id].state = CLONE_STATE_FETCH /\ tasks[ret.id].tx_id

\* the checks of add_task that come before the name check let the call pass
BeforeNameCheck(r) ==
    /\ ~(r \in DOMAIN repos /\ repos[r].head)
    /\ ~NonTerminal(r)

\* what add_task does when the name check is decided by Matches(wt, name)
NameCheckBy(Matches(_, _)) ==
    IsAddTask =>
        /\ ~Matches(ret'.wt, ret'.name) =>
              /\ ret'.rc = "fail"
              /\ BeforeNameCheck(ret'.id) => ret'.error = ERR_BAD_NAME
              /\ UNCHANGED <<tasks, db, fs>>
        /\ ret'.error = ERR_BAD_NAME => ~Matches(ret'.wt, ret'.name)

BasenameIsPrefixOfName(wt, name) == IsPrefix(g_path_get_basename(wt), name)

NameIsPrefixOfBasename(wt, name) == IsPrefix(name, g_path_get_basename(wt))

\* C8 as stated: add_task passes the name check exactly when the basename of
\* the worktree is a byte-prefix of repo_name; when it is not, add_task fails
\* with "Invalid local directory name" and creates no directory, task or row.
C8_BasenamePrefixOfName == [][NameCheckBy(BasenameIsPrefixOfName)]_vars

\* C8 amended: add_task passes the name check exactly when repo_name is a
\* byte-prefix of the basename of the worktree; when it is not, add_task
\* fails, with "Invalid local directory name" unless the repository is checked
\* out or a task for it is in progress, and creates no directory, task or row.
C8_NamePrefixOfBasename == [][NameCheckBy(NameIsPrefixOfBasename)]_vars

\* add_task has just refused worktree p/a for the repository named "ab"
C8_Witness ==
    /\ ret.op = "add_task" /\ ret.error = ERR_BAD_NAME
    /\ ret.name = <<"a", "b">> /\ ret.wt = P(<<"a">>)
    /\ ~HasTask(ret.id) /\ db = {}

\* no call of genHist created a directory
GenCreatesNothing == \A i \in DOMAIN genHist : ~genHist[i].made

\* C9 as stated: gen_default_worktree called N times in a row returns N
\* pairwise distinct paths and creates no directory.
C9_GenDistinct ==
    /\ GenCreatesNothing
    /\ \A i, j \in DOMAIN genHist :
          i # j => genHist[i].path # genHist[j].path

\* C9 amended: gen_default_worktree called N times in a row returns the same
\* path every time, parent/name or parent/name-k for a k >= 1, and creates no
\* directory.
C9_GenSame ==
    /\ GenCreatesNothing
    /\ \A i, j \in DOMAIN genHist : genHist[i].path = genHist[j].path
    /\ \A i \in DOMAIN genHist :
          LET wt == g_build_filename(genHist[i].parent, genHist[i].name)
          IN \/ genHist[i].path = wt
             \/ \E k \in 1..MaxCnt : genHist[i].path = SuffixName(wt, k)

\* gen_default_worktree has been called twice in a row where p/a is taken
\* and p/a-1 exists: both calls returned p/a-2
C9_Witness ==
    /\ Len(genHist) >= 2
    /\ genHist[2].path = P(SuffixName(<<"a">>, 2))

\* add_task called with the worktree and repo_name of a gen_default_worktree
\* call, in the state the call was made in, is refused for its worktree
RefusesWorktree(e) ==
    \E r \in RepoIds :
        seaf_clone_manager_add_task(r, e.name, e.path, "none",
                                    TRUE, TRUE, TRUE, TRUE).error
            \in {ERR_BAD_NAME, ERR_BAD_DIR, ERR_IN_SYNC}

\* C10: gen_default_worktree returns a path, creates nothing, and add_task
\* called with that path and the same repo_name in the same state passes the
\* name check and is not refused with "Invalid local directory" or "Already
\* in sync".
C10_GenUsable ==
    \A i \in DOMAIN genHist :
        /\ genHist[i].path # NULL
        /\ ~genHist[i].made
        /\ ~RefusesWorktree(genHist[i])

\* the same where lstat of parent/name succeeds or fails with ENOENT and the
\* tree has no dangling link: this much gen_default_worktree does guarantee
C10_GenUsableOnPlainTree ==
    \A i \in DOMAIN genHist :
        LET wt == g_build_filename(genHist[i].parent, genHist[i].name) IN
        (/\ g_lstat(fs, wt) # "ERR"
         /\ \A x \in DOMAIN fs : fs[x] # "dangling")
            => /\ genHist[i].path # NULL
               /\ ~genHist[i].made
               /\ ~RefusesWorktree(genHist[i])

\* the path is the worktree of a known repository, or of a task of another
\* repo_id than r that is not DONE, ERROR or CANCELED
WorktreeTaken(path, r) ==
    \/ \E o \in DOMAIN repos : repos[o].worktree = path
    \/ \E o \in RepoIds \ {r} : NonTerminal(o) /\ tasks[o].worktree = path

\* C11 as stated: add_task fails with "Already in sync" whenever the worktree
\* asked for, trailing separators stripped, is the worktree of a known
\* repository or of another non-terminal task, and then registers no task and
\* writes no row.
C11_TakenIsInSync ==
    [][(IsAddTask /\ WorktreeTaken(StripTail(ret'.wt), ret'.id)) =>
          /\ ret'.rc = "fail" /\ ret'.error = ERR_IN_SYNC
          /\ UNCHANGED <<tasks, db>>]_vars

\* C11 amended: such a call fails and registers no task and writes no row;
\* the error is "Already in sync" when the call gets as far as the worktree,
\* that is when the repository is not checked out, no task for repo_id is in
\* progress and repo_name is a prefix of the basename.
C11_TakenIsRefused ==
    [][(IsAddTask /\ WorktreeTaken(StripTail(ret'.wt), ret'.id)) =>
          /\ ret'.rc = "fail"
          /\ UNCHANGED <<tasks, db, fs>>
          /\ ret'.error =
                IF ret'.id \in DOMAIN repos /\ repos[ret'.id].head
                THEN ERR_REPO_EXISTS
                ELSE IF NonTerminal(ret'.id) THEN ERR_IN_PROGRESS
                ELSE IF ~NameIsPrefixOfBasename(ret'.wt, ret'.name)
                THEN ERR_BAD_NAME
                ELSE ERR_IN_SYNC]_vars

\* add_task for r1 has just been refused the worktree of the checked-out
\* repository r2, given with a trailing separator or not
C11_Witness ==
    /\ ret.op = "add_task" /\ ret.id = "r1" /\ ret.error = ERR_IN_SYNC
    /\ "r2" \in DOMAIN repos /\ repos["r2"].worktree = StripTail(ret.wt)
    /\ ~HasTask("r1") /\ db = {}

\* C12: an add_task call that fails, with any of its errors or on a Task
\* Store write failure, leaves mgr->tasks and CloneTasks as they were; a call
\* that returns the repo_id has put a task for it into mgr->tasks, in CONNECT,
\* INDEX, FETCH, CHECKOUT, MERGE or ERROR.
C12_AddTaskFrame ==
    [][IsAddTask =>
          /\ ret'.rc = "fail" =>
                /\ UNCHANGED <<tasks, db>>
                /\ ret'.error \in {ERR_REPO_EXISTS, ERR_IN_PROGRESS,
                                    ERR_BAD_NAME, ERR_BAD_DIR, ERR_IN_SYNC, ""}
          /\ ret'.rc = "ok" =>
                /\ ret'.error = ""
                /\ ret'.id \in DOMAIN tasks'
                /\ tasks'[ret'.id].state \in
                      {CLONE_STATE_CONNECT, CLONE_STATE_INDEX,
                       CLONE_STATE_FETCH, CLONE_STATE_CHECKOUT,
                       CLONE_STATE_MERGE, CLONE_STATE_ERROR}]_vars

\* add_task has just failed on the Task Store write: the directory it made is
\* there, no task and no row
C12_Witness ==
    /\ ret.op = "add_task" /\ ret.rc = "fail" /\ ret.error = ""
    /\ fs[StripTail(ret.wt)] = "empty"
    /\ tasks = EmptyMap /\ db = {}

IsCancelTask == ret'.op = "cancel_task"

\* C13: cancel_task for a task that is DONE, ERROR, CANCELED or
\* CANCEL_PENDING changes nothing: not the task, not its row, not any other
\* task, and nothing is asked of the transfer manager.
C13_CancelNoOp ==
    [][\A r \in RepoIds :
          (/\ IsCancelTask /\ ret'.id = r
           /\ StateOf(r) \in Terminal \cup {CLONE_STATE_CANCEL_PENDING}) =>
              /\ UNCHANGED <<tasks, db, repos, fs, idx, tx, co, mj, fault>>
              /\ ret'.sent = "none"]_vars

\* cancel_task has just been called for a task that was fetched and is DONE,
\* while another repository is still being fetched
C13_Witness ==
    /\ ret.op = "cancel_task" /\ ret.rc = "fail"
    /\ HasTask(ret.id)
    /\ tasks[ret.id].state = CLONE_STATE_DONE /\ tasks[ret.id].tx_id
    /\ \E o \in RepoIds \ {ret.id} : tx[o] = "run"

IsRemoveTask == ret'.op = "remove_task"

Undisturbed(r) == HasTask(r) /\ hist[r] = NoHist /\ enc[r] = "plain"

\* the state of r's task after the step
StateOfNext(r) == IF r \in DOMAIN tasks' THEN tasks'[r].state ELSE "none"

\* the step admits a task for a repository that is not there yet, the peer
\* being connected, and nothing fails
HappyAdmission(r) ==
    /\ IsAddTask /\ ret'.id = r /\ ret'.rc = "ok"
    /\ r \notin DOMAIN repos /\ enc[r] = "plain" /\ peer = "up"
    /\ StateOfNext(r) # CLONE_STATE_ERROR

\* the step moves an undisturbed task to another state, and nothing fails
\* (the transfer does not end canceled of its own either)
HappyMove(r) ==
    /\ Undisturbed(r) /\ hist'[r] = NoHist /\ r \in DOMAIN tasks'
    /\ ~IsAddTask
    /\ StateOfNext(r) \notin
          {StateOf(r), CLONE_STATE_ERROR, CLONE_STATE_CANCELED}

\* C15: with the peer connected, an unencrypted repository, no cancel and no
\* failure, a task admitted on an empty worktree goes FETCH, CHECKOUT, DONE
\* and a task admitted on a worktree with files goes INDEX, FETCH, MERGE,
\* DONE; the row is there until DONE and gone from DONE on.
C15_HappyPath ==
    [][\A r \in RepoIds :
          /\ HappyAdmission(r) =>
                /\ StateOfNext(r) =
                      IF fs[StripTail(ret'.wt)] = "nonempty"
                      THEN CLONE_STATE_INDEX ELSE CLONE_STATE_FETCH
                /\ ~tasks'[r].root_id
                /\ RowsOf(db', r) # {}
          /\ HappyMove(r) =>
                /\ RowsOf(db, r) # {}
                /\ RowsOf(db', r) = {} <=> StateOfNext(r) = CLONE_STATE_DONE
                /\ \/ /\ StateOf(r) = CLONE_STATE_CONNECT
                      /\ StateOfNext(r) \in
                            {CLONE_STATE_INDEX, CLONE_STATE_FETCH}
                   \/ /\ StateOf(r) = CLONE_STATE_INDEX
                      /\ StateOfNext(r) = CLONE_STATE_FETCH
                      /\ tasks'[r].root_id
                   \/ /\ StateOf(r) = CLONE_STATE_FETCH
                      /\ StateOfNext(r) =
                            IF tasks[r].root_id
                            THEN CLONE_STATE_MERGE ELSE CLONE_STATE_CHECKOUT
                   \/ /\ StateOf(r) = CLONE_STATE_CHECKOUT
                      /\ StateOfNext(r) = CLONE_STATE_DONE
                   \/ /\ StateOf(r) = CLONE_STATE_MERGE
                      /\ StateOfNext(r) = CLONE_STATE_DONE]_vars

\* a task admitted on a worktree with files has been indexed, fetched and
\* merged and is DONE, its row gone
C15_Witness ==
    \E r \in RepoIds :
        /\ Undisturbed(r) /\ tasks[r].state = CLONE_STATE_DONE
        /\ tasks[r].root_id /\ tasks[r].tx_id
        /\ repos[r].worktree = tasks[r].worktree
        /\ ~HasRow(r)

\* the task of r has no passphrase or a wrong one
BadPassphrase(r) == HasTask(r) /\ tasks[r].passwd \in {"none", "bad"}

\* no checkout or merge is under way or scheduled for r
NoCheckoutOrMerge(r) ==
    /\ StateOf(r) \notin {CLONE_STATE_CHECKOUT, CLONE_STATE_MERGE}
    /\ co[r] = "none" /\ mj[r] = "none"

\* C16: a task for an encrypted repository whose passphrase is missing or
\* wrong never enters CHECKOUT or MERGE, and no checkout or merge is scheduled
\* for it.
C16_NoCheckoutWithBadPassphrase ==
    \A r \in RepoIds :
        (enc[r] # "plain" /\ BadPassphrase(r)) => NoCheckoutOrMerge(r)

\* the same for repositories with enc_version >= 1, whose passphrase the
\* code verifies: this much start_checkout does guarantee
C16_NoCheckoutWhereVerified ==
    \A r \in RepoIds :
        (enc[r] = "enc1" /\ BadPassphrase(r)) => NoCheckoutOrMerge(r)

\* the step puts a new CloneTask in place for r (add_task or recovery)
NewTask(r) ==
    /\ r \in DOMAIN tasks'
    /\ \/ ~HasTask(r)
       \/ IsAddTask /\ ret'.id = r /\ ret'.rc = "ok"

\* C17: tx_id is set on a task exactly from its first entry into FETCH on:
\* a task in FETCH has its tx_id, tx_id gets set only by a step into FETCH
\* and stays set as long as the task exists, and a task whose download
\* add_download refused goes to ERROR (fetch) without passing through FETCH
\* and with tx_id unset.
C17_TxIdIffFetched ==
    [][\A r \in DOMAIN tasks' :
          /\ tasks'[r].state = CLONE_STATE_FETCH => tasks'[r].tx_id
          /\ tasks'[r].tx_id =>
                \/ tasks'[r].state = CLONE_STATE_FETCH
                \/ ~NewTask(r) /\ tasks[r].tx_id
          /\ (~NewTask(r) /\ tasks[r].tx_id) => tasks'[r].tx_id
          /\ (/\ tasks'[r].state = CLONE_STATE_ERROR
              /\ tasks'[r].error = CLONE_ERROR_FETCH
              /\ \/ NewTask(r)
                 \/ StateOf(r) \in {CLONE_STATE_CONNECT, CLONE_STATE_INDEX})
                => ~tasks'[r].tx_id]_vars

\* the index job of a task has ended well, add_download has refused the
\* download: the task is in ERROR (fetch) with files indexed and no tx_id
C17_Witness ==
    \E r \in RepoIds :
        /\ HasTask(r) /\ tasks[r].state = CLONE_STATE_ERROR
        /\ tasks[r].error = CLONE_ERROR_FETCH
        /\ tasks[r].root_id /\ ~tasks[r].tx_id

\* C18: in every reachable state, the error of a task is other than ok
\* exactly when the state of the task is ERROR.
C18_ErrorIffErrorState ==
    \A r \in DOMAIN tasks :
        tasks[r].error # CLONE_OK <=> tasks[r].state = CLONE_STATE_ERROR

\* a task has ended in ERROR on a checkout that failed, next to its
\* repository that has no head
C18_Witness ==
    \E r \in RepoIds :
        /\ HasTask(r) /\ tasks[r].state = CLONE_STATE_ERROR
        /\ tasks[r].error = CLONE_ERROR_CHECKOUT
        /\ r \in DOMAIN repos /\ ~repos[r].head

\* the step is a successful remove_task or add_task for r
RemovesOrSupersedes(r) ==
    /\ ret'.op \in {"remove_task", "add_task"}
    /\ ret'.id = r /\ ret'.rc = "ok"

\* C19: while the process runs, a task that is DONE, ERROR or CANCELED stays
\* in mgr->tasks as it is, state and error included, through every step
\* other than a remove_task for it or an add_task that supersedes it.
C19_TerminalStays ==
    [][\A r \in RepoIds :
          (/\ StateOf(r) \in Terminal
           /\ up'
           /\ ~RemovesOrSupersedes(r)) =>
              /\ r \in DOMAIN tasks'
              /\ tasks'[r] = tasks[r]]_vars

\* an add_task meant to supersede a canceled task has just failed, and the
\* canceled task is still there
C19_Witness ==
    /\ ret.op = "add_task" /\ ret.rc = "fail"
    /\ HasTask(ret.id) /\ tasks[ret.id].state = CLONE_STATE_CANCELED

IsRecovery == ~up /\ up'

\* what startup recovery has made of the row of r; failures: the outcomes of
\* a refused set_repo_passwd and of a refused add_download are admitted
RecoveryOutcome(r, failures) ==
    LET row == CHOOSE x \in RowsOf(db, r) : TRUE
        t == tasks'[r]
        files == fs[row.worktree] = "nonempty"
    IN /\ r \in DOMAIN tasks'
       /\ t.worktree = row.worktree /\ t.passwd = row.passwd
       /\ IF r \in DOMAIN repos /\ repos[r].head
          THEN t.state = CLONE_STATE_DONE /\ RowsOf(db', r) = {}
          ELSE IF r \in DOMAIN repos
          THEN /\ idx'[r] = "none" /\ tx'[r] = "none" /\ ~t.tx_id
               /\ \/ /\ t.state = CLONE_STATE_CHECKOUT
                     /\ ~files /\ co'[r] = "run"
                  \/ /\ t.state = CLONE_STATE_MERGE
                     /\ files /\ mj'[r] = "run"
                  \/ /\ t.state = CLONE_STATE_ERROR
                     /\ t.error = CLONE_ERROR_PASSWD
                     /\ enc[r] # "plain" /\ t.passwd \in {"none", "bad"}
                  \/ /\ failures
                     /\ t.state = CLONE_STATE_ERROR
                     /\ t.error = CLONE_ERROR_INTERNAL
          ELSE IF peer # "up"
          THEN t.state = CLONE_STATE_CONNECT
          ELSE \/ t.state = CLONE_STATE_INDEX /\ files /\ idx'[r] = "run"
               \/ t.state = CLONE_STATE_FETCH /\ ~files /\ tx'[r] = "run"
               \/ /\ failures
                  /\ t.state = CLONE_STATE_ERROR
                  /\ t.error = CLONE_ERROR_FETCH

RecoveryDispatch(failures) ==
    IsRecovery =>
        \A r \in RepoIds :
            IF RowsOf(db, r) # {} THEN RecoveryOutcome(r, failures)
            ELSE r \notin DOMAIN tasks'

CrashAfterRecovery == ret.op = "init" /\ up /\ ~up'

Answers == [RepoIds -> BOOLEAN]

Accepting == [r \in RepoIds |-> TRUE]

\* mgr->tasks as seaf_clone_manager_init leaves it when it runs in this
\* state, add_download and set_repo_passwd answering dl and setPw
RecoveryAgain(dl, setPw) ==
    seaf_clone_manager_init(Ctx(NULL), db, dl, setPw).tasks

Fairness ==
    /\ WF_vars(\E dl \in Answers : Poll(dl))
    /\ \A r \in {"r1"} :
          /\ WF_vars(\E success, dlOk \in BOOLEAN :
                        IndexDone(r, success, dlOk))
          /\ WF_vars(\E st \in {"finished", "error", "canceled"},
                        setPwOk \in BOOLEAN : RepoFetched(r, st, setPwOk))
          /\ WF_vars(\E success \in BOOLEAN : CheckoutRuns(r, success))
          /\ WF_vars(CheckoutDone(r))
          /\ WF_vars(\E o \in MergeOutcomes : MergeJobRuns(r, o))
          /\ WF_vars(MergeJobDone(r))

SpecLive == Init /\ [][Next]_vars /\ Fairness

InState(r, S) == HasTask(r) /\ tasks[r].state \in S

\* the task of r has reached DONE, ERROR or CANCELED, or the process has
\* stopped and mgr->tasks with it
Over(r) == ~NonTerminal(r)

IsPollTick ==
    /\ up /\ up'
    /\ ret' = NoRet
    /\ UNCHANGED <<peer, repos, fs, co, mj, hist>>
    /\ \A r \in RepoIds :
          /\ idx[r] # "none" => idx'[r] = idx[r]
          /\ tx[r] # "none" => tx'[r] = tx[r]

\* the post-connect fork taken for the task of r
PostConnectFork(r) ==
    LET t == tasks'[r]
        files == fs[tasks[r].worktree] = "nonempty"
    IN /\ t.worktree = tasks[r].worktree /\ t.passwd = tasks[r].passwd
       /\ \/ /\ t.state = CLONE_STATE_INDEX /\ files
             /\ idx'[r] = "run" /\ tx'[r] = tx[r]
          \/ /\ t.state = CLONE_STATE_FETCH /\ ~files
             /\ tx'[r] = "run" /\ idx'[r] = idx[r]
          \/ /\ t.state = CLONE_STATE_ERROR /\ ~files
             /\ t.error = CLONE_ERROR_FETCH
             /\ tx'[r] = tx[r] /\ idx'[r] = idx[r]

\* C23: a poll tick moves every task in CONNECT whose peer is connected to
\* INDEX (worktree with files), FETCH (empty worktree) or ERROR (fetch: the
\* download is refused) and leaves every other task, its row and its jobs as
\* they are; and while the process runs a task leaves CONNECT only in a poll
\* tick or by cancel_task.
C23_Poller ==
    [][/\ IsPollTick =>
             /\ DOMAIN tasks' = DOMAIN tasks
             /\ \A r \in DOMAIN tasks :
                   IF tasks[r].state = CLONE_STATE_CONNECT /\ peer = "up"
                   THEN PostConnectFork(r)
                   ELSE /\ tasks'[r] = tasks[r]
                        /\ RowsOf(db', r) = RowsOf(db, r)
                        /\ idx'[r] = idx[r] /\ tx'[r] = tx[r]
       /\ \A r \in RepoIds :
             (/\ InState(r, {CLONE_STATE_CONNECT}) /\ up'
              /\ StateOfNext(r) # CLONE_STATE_CONNECT) =>
                 \/ IsPollTick
                 \/ ret'.op = "cancel_task" /\ ret'.id = r]_vars

\* a task registered by startup recovery has taken the post-connect fork to
\* INDEX under a connected peer, and no RPC call has been made since
C23_Witness ==
    /\ ret = NoRet /\ peer = "up"
    /\ \E r \in RepoIds :
          /\ InState(r, {CLONE_STATE_INDEX})
          /\ hist[r] = "restarted" /\ idx[r] = "run"

\* merge_job_done runs for the task of r, which is in MERGE
MergeCompletes(r) ==
    /\ InState(r, {CLONE_STATE_MERGE})
    /\ mj[r] \in MergeOutcomes /\ mj'[r] = "none"
    /\ up'

\* what the completion of the merge job does when the merge ended in one of
\* the outcomes O
MergeSurfaces(O) ==
    \A r \in RepoIds :
        (MergeCompletes(r) /\ mj[r] \in O) =>
            IF MergeSucceeded(mj[r])
            THEN tasks'[r].state = CLONE_STATE_DONE
            ELSE /\ tasks'[r].state = CLONE_STATE_ERROR
                 /\ tasks'[r].error = CLONE_ERROR_MERGE
                 /\ ~repos'[r].head

\* C24: when the merge job of a task in MERGE has failed (three-way merge,
\* fast-forward unpack or update of the worktree, loading the branch, the
\* commit or the index) the task ends in ERROR (merge) and the repository
\* has no head; the task goes from MERGE to DONE only when the merge has
\* succeeded.
C24_MergeFailureSurfaces == [][MergeSurfaces(MergeOutcomes)]_vars

\* the same for every outcome but a failed three-way merge: this is what
\* merge_job reports
C24_ReportedFailureSurfaces ==
    [][MergeSurfaces(MergeOutcomes \ {"rm_fail"})]_vars

\* cancel_task was accepted for the task of r in INDEX, CHECKOUT or MERGE and
\* the completion of the job has since made it CANCELED
CanceledInJob(r) == InState(r, {CLONE_STATE_CANCELED}) /\ hist[r] = "job"

\* C25: once the completion of the job has made such a task CANCELED, the
\* repository has neither a head nor the task's worktree as its worktree,
\* and add_task for the same repo_id is not refused with "Repo already
\* exists".
C25_CancelDiscardsResult ==
    [][\A r \in RepoIds :
          CanceledInJob(r) =>
             /\ r \in DOMAIN repos =>
                   /\ ~repos[r].head
                   /\ repos[r].worktree # tasks[r].worktree
             /\ (IsAddTask /\ ret'.id = r) =>
                   ret'.error # ERR_REPO_EXISTS]_vars

\* an index job, a transfer, a checkout or a merge job started for r has
\* not yet delivered its completion
Pending(r) ==
    idx[r] # "none" \/ tx[r] # "none" \/ co[r] # "none" \/ mj[r] # "none"

\* C26: while a completion is outstanding for a repo_id, mgr->tasks holds a
\* task for it that is not DONE, ERROR or CANCELED (remove_task and add_task
\* cannot have freed it); no handler has hit an assertion or a freed task;
\* and a checkout is outstanding only for a task in CHECKOUT or
\* CANCEL_PENDING, a merge job only for one in MERGE or CANCEL_PENDING.
C26_CompletionsFindTheirTask ==
    /\ fault = "none"
    /\ \A r \in RepoIds :
          /\ Pending(r) => NonTerminal(r)
          /\ co[r] # "none" =>
                InState(r, {CLONE_STATE_CHECKOUT, CLONE_STATE_CANCEL_PENDING})
          /\ mj[r] # "none" =>
                InState(r, {CLONE_STATE_MERGE, CLONE_STATE_CANCEL_PENDING})

\* the checkout of a task that was canceled meanwhile has ended and
\* on_checkout_done is about to be called; remove_task has just been refused
C26_Witness ==
    /\ ret.op = "remove_task" /\ ret.rc = "fail"
    /\ co[ret.id] \in {"ok", "fail"}
    /\ InState(ret.id, {CLONE_STATE_CANCEL_PENDING})

\* C27: no task that mgr->tasks holds is in INIT: add_task and startup
\* recovery have moved it to CONNECT, INDEX, FETCH, CHECKOUT, MERGE, DONE or
\* ERROR by the time they return, so cancel_task never finds a task in INIT.
C27_NoInitInRegistry ==
    \A r \in RepoIds : HasTask(r) => tasks[r].state # CLONE_STATE_INIT

\* add_task has just registered a task for a repository that was fetched
\* and not checked out: the task went from INIT straight to MERGE
C27_Witness ==
    /\ ret.op = "add_task" /\ ret.rc = "ok"
    /\ InState(ret.id, {CLONE_STATE_MERGE})
    /\ ~tasks[ret.id].tx_id

=============================================================================
